---- MODULE Spec2Model ----
(***************************************************************************)
(* State-machine model of the solar estimator in src/src/App.js: the       *)
(* React state of App, the asynchronous handler handleSubmit (one action   *)
(* per stretch of code between two awaited network responses), the         *)
(* incentive catalogue and its two helpers, and the monthly weather        *)
(* aggregation processHistoricalWeatherData.                                *)
(*                                                                         *)
(* Numbers.  A JavaScript number is a record [k, v]: k = "fin" with the    *)
(* value v, or k = "nan" / "inf" / "ninf" (v = 0).  Finite values are      *)
(* exact integers in a unit chosen per quantity so that every product and  *)
(* quotient of the code stays exact:                                       *)
(*     annual consumption        1 kWh                                     *)
(*     system size               1/SizeUnitsPerKW kW                       *)
(*     production (annual/month) 1/EnergyUnitsPerKWh kWh                   *)
(*     money                     1/UnitsPerDollar dollar                   *)
(* A quotient that is only formatted afterwards (the payback periods) is   *)
(* kept as an exact fraction [k, num, den].  The daily temperatures and UV *)
(* indexes, whose sums the aggregation rounds at every addition, are IEEE  *)
(* 754 doubles with all their digits (see "double-precision sums").        *)
(* Strings the code computes on (address, consumption field, messages)     *)
(* are sequences of one-character strings or of message fragments.         *)
(***************************************************************************)
EXTENDS Integers, Sequences, FiniteSets, TLC

\* ---------------------------------------------------------------- bounds
MaxRuns == 2
MaxSamples == 3
\* resolution of the provider's figures: production values are multiples of
\* 1/EnergyUnitsPerKWh kWh
EnergyUnitsPerKWh == 2

\* ------------------------------------------------------ program constants
averageSystemEfficiencyPct == 75
averageSunHoursPerDay == 4
averageCostPerWattCents == 277
averageElectricityRateCents == 14
panelWattage == 350
DaysPerYear == 365

\* units (derived from the constants so that the arithmetic below is exact)
SizeUnitsPerKW == (DaysPerYear * averageSunHoursPerDay * averageSystemEfficiencyPct) \div 100
UnitsPerDollar == 20 * SizeUnitsPerKW

\* ------------------------------------------------------------- JS numbers
Fin(n) == [k |-> "fin", v |-> n]
NaN == [k |-> "nan", v |-> 0]
PosInf == [k |-> "inf", v |-> 0]
NegInf == [k |-> "ninf", v |-> 0]
Undefined == [k |-> "undef", v |-> 0]

IsFin(x) == x.k = "fin"
Abs(n) == IF n < 0 THEN -n ELSE n

\* undefined used as a number converts to NaN
ToNumber(x) == IF x.k = "undef" THEN NaN ELSE x

\* x * c / d for positive integer constants c, d (exact on the model's units;
\* the quotient is split so that no intermediate product overflows)
Scale(x, c, d) ==
  LET a == ToNumber(x) IN
  IF IsFin(a) THEN Fin((a.v \div d) * c + ((a.v % d) * c) \div d) ELSE a

\* a + b
NumAdd(x, y) ==
  LET a == ToNumber(x)
      b == ToNumber(y) IN
  IF a.k = "nan" \/ b.k = "nan" THEN NaN
  ELSE IF IsFin(a) /\ IsFin(b) THEN Fin(a.v + b.v)
  ELSE IF IsFin(a) THEN b
  ELSE IF IsFin(b) THEN a
  ELSE IF a.k = b.k THEN a ELSE NaN

NumNeg(x) ==
  LET a == ToNumber(x) IN
  CASE a.k = "fin" -> Fin(-a.v)
    [] a.k = "inf" -> NegInf
    [] a.k = "ninf" -> PosInf
    [] OTHER -> NaN

\* a - b
NumSub(x, y) == NumAdd(x, NumNeg(y))

\* a > 0 (false for NaN)
Positive(x) ==
  LET a == ToNumber(x) IN
  (a.k = "fin" /\ a.v > 0) \/ a.k = "inf"

Negative(x) ==
  LET a == ToNumber(x) IN
  (a.k = "fin" /\ a.v < 0) \/ a.k = "ninf"

\* a / b as a fraction, IEEE 754 special cases included (operands in the same unit)
FinQ(n, d) == [k |-> "fin", num |-> n, den |-> d]
SpecialQ(kind) == [k |-> kind, num |-> 0, den |-> 1]

NumDiv(x, y) ==
  LET a == ToNumber(x)
      b == ToNumber(y) IN
  IF a.k = "nan" \/ b.k = "nan" THEN SpecialQ("nan")
  ELSE IF IsFin(a) /\ IsFin(b) THEN
    IF b.v # 0 THEN (IF b.v > 0 THEN FinQ(a.v, b.v) ELSE FinQ(-a.v, -b.v))
    ELSE IF a.v > 0 THEN SpecialQ("inf")
    ELSE IF a.v < 0 THEN SpecialQ("ninf")
    ELSE SpecialQ("nan")
  ELSE IF IsFin(a) THEN FinQ(0, 1)
  ELSE IF IsFin(b) THEN
    (IF (a.k = "inf") = (b.v >= 0) THEN SpecialQ("inf") ELSE SpecialQ("ninf"))
  ELSE SpecialQ("nan")

\* Math.round(x) of a value in units of 1/unit: nearest integer, ties upwards
MathRound(x, unit) ==
  LET a == ToNumber(x) IN
  IF IsFin(a) THEN Fin((2 * a.v + unit) \div (2 * unit)) ELSE a

\* Math.ceil(n / d), d > 0
CeilDiv(n, d) == -((-n) \div d)

\* Number.prototype.toFixed(digits) of the fraction q: the text of the nearest
\* multiple of 1/scale (scale = 10^digits), ties away from zero, sign kept
\* (so -0.04 gives "-0.0"); NaN and the infinities give their names.
ToFixed(q, scale) ==
  IF q.k # "fin" THEN [k |-> q.k, neg |-> FALSE, n |-> 0]
  ELSE LET a == Abs(q.num)
           whole == a \div q.den
           rest == a % q.den
       IN [k |-> "fin", neg |-> q.num < 0,
           n |-> scale * whole + (2 * scale * rest + q.den) \div (2 * q.den)]

\* ---------------------------------------------------------------- strings
Whitespace == {" "}
Digits == <<"0", "1", "2", "3", "4", "5", "6", "7", "8", "9">>
IsDigit(c) == \E d \in 1..10 : Digits[d] = c
DigitValue(c) == (CHOOSE d \in 1..10 : Digits[d] = c) - 1

\* String.prototype.split(',').pop(): the text after the last comma (the whole
\* text when there is none)
RECURSIVE LastToken(_)
LastToken(s) ==
  IF \E i \in 1..Len(s) : s[i] = ","
  THEN LastToken(Tail(s))
  ELSE s

\* String.prototype.trim()
RECURSIVE TrimStart(_)
TrimStart(s) ==
  IF s # <<>> /\ Head(s) \in Whitespace THEN TrimStart(Tail(s)) ELSE s

RECURSIVE TrimEnd(_)
TrimEnd(s) ==
  IF s # <<>> /\ s[Len(s)] \in Whitespace THEN TrimEnd(SubSeq(s, 1, Len(s) - 1)) ELSE s

Trim(s) == TrimEnd(TrimStart(s))

\* address.split(',').pop().trim()
StateOfAddress(addr) == Trim(LastToken(addr))

\* the leading run of decimal digits of s, as (value, digits read)
RECURSIVE DigitPrefix(_, _, _)
DigitPrefix(s, acc, read) ==
  IF s # <<>> /\ IsDigit(Head(s))
  THEN DigitPrefix(Tail(s), 10 * acc + DigitValue(Head(s)), read + 1)
  ELSE <<acc, read>>

\* parseFloat(text): leading blanks skipped, an optional sign, then the longest
\* run of digits; NaN when no digit is read (the model's texts carry no
\* fraction or exponent part)
ParseFloat(text) ==
  LET s == TrimStart(text)
      signed == s # <<>> /\ Head(s) \in {"-", "+"}
      body == IF signed THEN Tail(s) ELSE s
      p == DigitPrefix(body, 0, 0)
  IN IF p[2] = 0 THEN NaN
     ELSE IF signed /\ Head(s) = "-" THEN Fin(-p[1]) ELSE Fin(p[1])

\* Array.prototype.join(sep) on a sequence of message fragments
RECURSIVE Join(_, _)
Join(parts, sep) ==
  IF parts = <<>> THEN <<>>
  ELSE IF Len(parts) = 1 THEN <<parts[1]>>
  ELSE <<parts[1], sep>> \o Join(Tail(parts), sep)

\* ------------------------------------------------------ incentive catalogue
\* amount: dollars for a rebate, percent of the installation cost for a taxCredit
incentivesDatabase ==
  << [state |-> <<"C", "A">>, type |-> "rebate", amount |-> 1000,
      description |-> "California Solar Initiative Rebate"],
     [state |-> <<"C", "A">>, type |-> "taxCredit", amount |-> 30,
      description |-> "Federal Solar Investment Tax Credit"],
     [state |-> <<"N", "Y">>, type |-> "rebate", amount |-> 5000,
      description |-> "NY-Sun Incentive Program"],
     [state |-> <<"N", "Y">>, type |-> "taxCredit", amount |-> 25,
      description |-> "New York State Solar Equipment Tax Credit"] >>

\* SameState on upper-cased texts
UpperCase(c) ==
  CASE c = "a" -> "A" [] c = "c" -> "C" [] c = "n" -> "N" [] c = "y" -> "Y" [] OTHER -> c

SameStateIgnoringCase(a, b) ==
  [i \in 1..Len(a) |-> UpperCase(a[i])] = [i \in 1..Len(b) |-> UpperCase(b[i])]

\* incentive.state === state
SameState(a, b) == a = b

\* Array.prototype.filter keeps the matching records in their order
findIncentives(state) ==
  SelectSeq(incentivesDatabase, LAMBDA incentive : SameState(incentive.state, state))

\* incentiveAmount with every record taken as a flat amount
incentiveAmountFlat(incentive, installationCost) ==
  Fin(incentive.amount * UnitsPerDollar)

\* the body of the map callback: the amount one record contributes
incentiveAmount(incentive, installationCost) ==
  IF incentive.type = "rebate" THEN Fin(incentive.amount * UnitsPerDollar)
  ELSE IF incentive.type = "taxCredit" THEN Scale(installationCost, incentive.amount, 100)
  ELSE Undefined

ApplyIncentive(incentive, installationCost) ==
  [state |-> incentive.state, type |-> incentive.type, amount |-> incentive.amount,
   description |-> incentive.description,
   appliedAmount |-> incentiveAmount(incentive, installationCost)]

\* totalIncentives += incentiveAmount, record after record, from 0
RECURSIVE AccumulateIncentives(_, _)
AccumulateIncentives(applied, total) ==
  IF applied = <<>> THEN total
  ELSE AccumulateIncentives(Tail(applied), NumAdd(total, Head(applied).appliedAmount))

calculateIncentives(installationCost, state) ==
  LET applicableIncentives == findIncentives(state)
      appliedIncentives ==
        [i \in 1..Len(applicableIncentives) |->
           ApplyIncentive(applicableIncentives[i], installationCost)]
  IN [appliedIncentives |-> appliedIncentives,
      totalIncentives |-> AccumulateIncentives(appliedIncentives, Fin(0))]

\* ------------------------------------------------- sizing and cost figures
\* parseFloat(annualConsumption) / 365 / averageSunHoursPerDay / averageSystemEfficiency
SystemSizeKW(annualConsumption) ==
  Scale(ParseFloat(annualConsumption), SizeUnitsPerKW,
        (DaysPerYear * averageSunHoursPerDay * averageSystemEfficiencyPct) \div 100)

\* systemSizeKW * 1000 * averageCostPerWatt
EstimatedCost(systemSizeKW) ==
  Scale(Scale(systemSizeKW, 1000 * averageCostPerWattCents, 100),
        UnitsPerDollar \div SizeUnitsPerKW, 1)

\* annualProduction * averageElectricityRate
AnnualSavings(annualProduction) ==
  Scale(annualProduction,
        (averageElectricityRateCents * UnitsPerDollar) \div (100 * EnergyUnitsPerKWh), 1)

\* annualSavings > 0 ? estimatedCost / annualSavings : Infinity
PaybackPeriod(estimatedCost, annualSavings) ==
  IF Positive(annualSavings) THEN NumDiv(estimatedCost, annualSavings)
  ELSE SpecialQ("inf")

\* AdjustedCost floored at zero
AdjustedCostFloored(estimatedCost, totalIncentives) ==
  LET d == NumSub(estimatedCost, totalIncentives) IN
  IF Negative(d) THEN Fin(0) ELSE d

\* estimatedCost - totalIncentives
AdjustedCost(estimatedCost, totalIncentives) == NumSub(estimatedCost, totalIncentives)

\* adjustedCost / annualSavings
AdjustedPaybackPeriod(adjustedCost, annualSavings) == NumDiv(adjustedCost, annualSavings)

\* x === Infinity ? 'Infinity' : x.toFixed(1)
PaybackText(q) == IF q.k = "inf" THEN [k |-> "inf", neg |-> FALSE, n |-> 0] ELSE ToFixed(q, 10)

\* Math.ceil(systemSizeKW * 1000 / panelWattage)
RecommendedPanels(systemSizeKW) ==
  LET a == ToNumber(systemSizeKW) IN
  IF IsFin(a) THEN Fin(CeilDiv(a.v * 1000, SizeUnitsPerKW * panelWattage)) ELSE a

\* systemSizeKW.toFixed(2)
SystemSizeText(systemSizeKW) ==
  LET a == ToNumber(systemSizeKW) IN
  ToFixed(IF IsFin(a) THEN FinQ(a.v, SizeUnitsPerKW) ELSE SpecialQ(a.k), 100)

\* the object handed to setCostEstimate
CostEstimateOf(systemSizeKW, annualProduction, estimatedCost, annualSavings, paybackPeriod, totalIncentives, adjustedCost, adjustedPaybackPeriod) ==
  [installationCost |-> MathRound(estimatedCost, UnitsPerDollar),
   adjustedInstallationCost |-> MathRound(adjustedCost, UnitsPerDollar),
   paybackPeriod |-> PaybackText(paybackPeriod),
   adjustedPaybackPeriod |-> PaybackText(adjustedPaybackPeriod),
   annualSavings |-> MathRound(annualSavings, UnitsPerDollar),
   systemSizeKW |-> SystemSizeText(systemSizeKW),
   recommendedPanels |-> RecommendedPanels(systemSizeKW),
   recommendedSystemSize |-> SystemSizeText(systemSizeKW),
   recommendedProduction |-> MathRound(annualProduction, EnergyUnitsPerKWh),
   totalIncentives |-> MathRound(totalIncentives, UnitsPerDollar)]

\* nrelData.outputs.ac_monthly.map((value, index) => ({name, production}))
monthNames == <<"Jan", "Feb", "Mar", "Apr", "May", "Jun",
                "Jul", "Aug", "Sep", "Oct", "Nov", "Dec">>

ChartData(ac_monthly) ==
  [i \in 1..Len(ac_monthly) |->
     [name |-> IF i <= Len(monthNames) THEN monthNames[i] ELSE "undefined",
      production |-> MathRound(ac_monthly[i], EnergyUnitsPerKWh)]]

\* -------------------------------------------------- double-precision sums
\* The sums and means of the weather aggregation are computed as the engine
\* computes them, on IEEE 754 doubles.  A double is [k, neg, m, e]: k = "fin"
\* with the value (-1)^neg * m * 2^e, or k = "nan".  m is a natural number
\* written as its binary digits, least significant first; it is odd unless
\* the value is zero and has at most MantissaBits digits.
MantissaBits == 53

\* the digits of a natural number below 2^30
BigFromInt(n) ==
  LET len == CHOOSE k \in 0..30 : n < 2^k /\ (k = 0 \/ 2^(k - 1) <= n) IN
  [i \in 1..len |-> (n \div 2^(i - 1)) % 2]

\* the number written by the digits lo..hi of b
RECURSIVE BigRange(_, _, _)
BigRange(b, lo, hi) ==
  IF lo > hi THEN 0
  ELSE IF lo = hi THEN b[lo]
  ELSE LET mid == (lo + hi) \div 2 IN
       BigRange(b, lo, mid) + 2^(mid - lo + 1) * BigRange(b, mid + 1, hi)

BigToInt(b) == BigRange(b, 1, Len(b))

\* b without its leading zero digits
BigNorm(b) ==
  LET top == CHOOSE i \in 0..Len(b) :
               (i = 0 \/ b[i] = 1) /\ \A k \in (i + 1)..Len(b) : b[k] = 0
  IN SubSeq(b, 1, top)

BigShift(b, k) == IF b = <<>> THEN b ELSE [i \in 1..k |-> 0] \o b

BigBit(b, i) == IF i <= Len(b) THEN b[i] ELSE 0

\* digits lo..hi of a + b (sign = 1) or a - b (sign = -1) with the carry or
\* borrow c coming in; the low half is worked out first, the high half takes
\* its carry
RECURSIVE BigSumRange(_, _, _, _, _, _)
BigSumRange(a, b, sign, lo, hi, c) ==
  IF lo = hi
  THEN LET s == BigBit(a, lo) + sign * (BigBit(b, lo) + c) IN
       [digits |-> <<s % 2>>,
        c |-> IF sign = 1 THEN s \div 2 ELSE (IF s < 0 THEN 1 ELSE 0)]
  ELSE LET mid == (lo + hi) \div 2
           low == BigSumRange(a, b, sign, lo, mid, c)
           high == BigSumRange(a, b, sign, mid + 1, hi, low.c)
       IN IF low.c <= 1 THEN [digits |-> low.digits \o high.digits, c |-> high.c]
          ELSE low

BigAdd(a, b) ==
  LET len == (IF Len(a) > Len(b) THEN Len(a) ELSE Len(b)) + 1 IN
  BigNorm(BigSumRange(a, b, 1, 1, len, 0).digits)

\* a - b for a >= b
BigSub(a, b) ==
  IF a = <<>> THEN a ELSE BigNorm(BigSumRange(a, b, -1, 1, Len(a), 0).digits)

BigLess(a, b) ==
  IF Len(a) # Len(b) THEN Len(a) < Len(b)
  ELSE \E i \in 1..Len(a) : a[i] < b[i] /\ \A k \in (i + 1)..Len(a) : a[k] = b[k]

\* long division of the digits lo..hi of b by n with the remainder r of the
\* digits above; the high half is worked out first
RECURSIVE BigDivRange(_, _, _, _, _)
BigDivRange(b, n, lo, hi, r) ==
  IF lo = hi
  THEN LET t == 2 * r + b[lo] IN [digits |-> <<t \div n>>, r |-> t % n]
  ELSE LET mid == (lo + hi) \div 2
           high == BigDivRange(b, n, mid + 1, hi, r)
           low == BigDivRange(b, n, lo, mid, high.r)
       IN IF high.r < n THEN [digits |-> low.digits \o high.digits, r |-> low.r]
          ELSE high

BigDiv(b, n) ==
  IF b = <<>> THEN [digits |-> <<>>, r |-> 0]
  ELSE LET d == BigDivRange(b, n, 1, Len(b), 0) IN
       [digits |-> BigNorm(d.digits), r |-> d.r]

DoubleZero == [k |-> "fin", neg |-> FALSE, m |-> <<>>, e |-> 0]
DoubleNaN == [k |-> "nan", neg |-> FALSE, m |-> <<>>, e |-> 0]

LowZeros(b) ==
  CHOOSE z \in 0..Len(b) : (\A i \in 1..z : b[i] = 0) /\ (z = Len(b) \/ b[z + 1] = 1)

Canonical(neg, m, e) ==
  IF m = <<>> THEN DoubleZero
  ELSE LET z == LowZeros(m) IN
       [k |-> "fin", neg |-> neg, m |-> SubSeq(m, z + 1, Len(m)), e |-> e + z]

\* m * 2^e (with further nonzero digits below when sticky) rounded to
\* MantissaBits digits, ties to the even neighbour
RoundToDouble(neg, m, e, sticky) ==
  IF Len(m) <= MantissaBits THEN Canonical(neg, m, e)
  ELSE LET cut == Len(m) - MantissaBits
           kept == SubSeq(m, cut + 1, Len(m))
           below == sticky \/ \E i \in 1..(cut - 1) : m[i] = 1
           up == m[cut] = 1 /\ (below \/ kept[1] = 1)
       IN Canonical(neg, IF up THEN BigAdd(kept, <<1>>) ELSE kept, e + cut)

DoubleFromInt(n) == Canonical(n < 0, BigFromInt(Abs(n)), 0)

\* the real number x + y, not rounded
ExactSum(x, y) ==
  LET e == IF x.e < y.e THEN x.e ELSE y.e
      a == BigShift(x.m, x.e - e)
      b == BigShift(y.m, y.e - e)
  IN IF x.neg = y.neg THEN Canonical(x.neg, BigAdd(a, b), e)
     ELSE IF BigLess(a, b) THEN Canonical(y.neg, BigSub(b, a), e)
     ELSE Canonical(x.neg, BigSub(a, b), e)

\* x + y
DoubleAdd(x, y) ==
  IF x.k # "fin" \/ y.k # "fin" THEN DoubleNaN
  ELSE LET s == ExactSum(x, y) IN RoundToDouble(s.neg, s.m, s.e, FALSE)

\* x / n for a positive integer n
DoubleDivide(x, n) ==
  IF x.k # "fin" THEN DoubleNaN
  ELSE LET s == MantissaBits + 2 + Len(BigFromInt(n))
           d == BigDiv(BigShift(x.m, s), n)
       IN RoundToDouble(x.neg, d.digits, x.e - s, d.r # 0)

\* the double a response body's decimal numeral n / scale parses to
Decimal(n, scale) == DoubleDivide(DoubleFromInt(n), scale)

\* x.toFixed(1): the sign and floor(10 |x| + 1/2) tenths
DoubleToFixed(x) ==
  IF x.k # "fin" THEN [k |-> "nan", neg |-> FALSE, n |-> 0]
  ELSE LET ten == BigAdd(BigShift(x.m, 3), BigShift(x.m, 1))
           n == IF x.e >= 0 THEN BigToInt(BigShift(ten, x.e))
                ELSE LET t == BigAdd(BigShift(ten, 1), BigShift(<<1>>, -x.e)) IN
                     BigToInt(SubSeq(t, 2 - x.e, Len(t)))
       IN [k |-> "fin", neg |-> x.neg, n |-> n]

\* ------------------------------------------------------ weather aggregation
SecondsPerDay == 86400

\* new Date(dt * 1000).getMonth(): the calendar month (0 = January) of the
\* instant dt seconds after the epoch, on a clock offset seconds ahead of UTC
GetMonth(dt, offset) ==
  LET days == (dt + offset) \div SecondsPerDay
      z == days + 719468
      era == z \div 146097
      doe == z - era * 146097
      yoe == (doe - doe \div 1460 + doe \div 36524 - doe \div 146096) \div 365
      doy == doe - (365 * yoe + yoe \div 4 - yoe \div 100)
      mp == (5 * doy + 2) \div 153
  IN (IF mp < 10 THEN mp + 3 ELSE mp - 9) - 1

\* Array(12).fill().map(() => ({temperature: 0, solarRadiation: 0, count: 0}))
EmptyMonths ==
  [m \in 1..12 |-> [temperature |-> DoubleZero, solarRadiation |-> DoubleZero, count |-> 0]]

\* a sample the forEach callback can read: a numeric dt and a temp object
Readable(day) == day.dt.k = "fin" /\ day.temp.present

\* AddSample with = where the code has +=
AddSampleOverwriting(months, day, offset) ==
  LET month == GetMonth(day.dt.v, offset) + 1 IN
  [months EXCEPT ![month] =
     [temperature |-> day.temp.day, solarRadiation |-> day.uvi, count |-> @.count + 1]]

\* the forEach callback on one sample
AddSample(months, day, offset) ==
  LET month == GetMonth(day.dt.v, offset) + 1 IN
  [months EXCEPT ![month] =
     [temperature |-> DoubleAdd(@.temperature, day.temp.day),
      solarRadiation |-> DoubleAdd(@.solarRadiation, day.uvi),
      count |-> @.count + 1]]

RECURSIVE Accumulate(_, _, _)
Accumulate(months, dailyData, offset) ==
  IF dailyData = <<>> THEN months
  ELSE Accumulate(AddSample(months, Head(dailyData), offset), Tail(dailyData), offset)

\* count > 0 ? (sum / count).toFixed(1) : 0
MonthlyMean(sum, count) ==
  IF count > 0 THEN [type |-> "string", text |-> DoubleToFixed(DoubleDivide(sum, count))]
  ELSE [type |-> "number", text |-> [k |-> "fin", neg |-> FALSE, n |-> 0]]

\* an unreadable sample makes the callback throw a TypeError
processHistoricalWeatherData(dailyData, offset) ==
  IF \E i \in 1..Len(dailyData) : ~Readable(dailyData[i])
  THEN [threw |-> TRUE, value |-> <<>>]
  ELSE LET monthlyData == Accumulate(EmptyMonths, dailyData, offset) IN
       [threw |-> FALSE,
        value |-> [index \in 1..12 |->
                     [month |-> monthNames[index],
                      temperature |-> MonthlyMean(monthlyData[index].temperature,
                                                  monthlyData[index].count),
                      solarRadiation |-> MonthlyMean(monthlyData[index].solarRadiation,
                                                     monthlyData[index].count)]]]

\* ------------------------------------------------------------------ inputs
\* texts of the address field: "a, CA", "NY", "a,ca", "CA, "
Addresses ==
  { <<"a", ",", " ", "C", "A">>, <<"N", "Y">>, <<"a", ",", "c", "a">>,
    <<"C", "A", ",", " ">> }

\* texts of the consumption field: "", "0", "-1095", "300", "4380"
Consumptions ==
  { <<>>, <<"0">>, <<"-", "1", "0", "9", "5">>, <<"3", "0", "0">>, <<"4", "3", "8", "0">> }

\* clock offsets of the browser, seconds ahead of UTC
TimeZones == {0, -18000}

\* messages of errors thrown by fetch or by response.json(); '' is possible
ThrownMessages == { <<"Failed to fetch">>, <<>> }
\* the inner catch blocks only log the error: one rejection stands for all
BranchRejection == [kind |-> "throw", message |-> <<"Failed to fetch">>]
TypeErrorMessage == <<"TypeError">>

\* what the geocoder's response.json() resolves to
GeocodeData ==
  { [kind |-> "array", results |-> <<>>],
    [kind |-> "array", results |-> <<[lat |-> "34.05", lon |-> "-118.24"]>>],
    [kind |-> "object", results |-> <<>>],
    [kind |-> "null", results |-> <<>>] }

\* what the solar-yield response.json() resolves to
Absent == [present |-> FALSE, list |-> <<>>]
Present(list) == [present |-> TRUE, list |-> list]
Monthly12 == [i \in 1..12 |-> Fin(200 * i + 1)]
NoOutputs == [present |-> FALSE, ac_annual |-> Undefined, ac_monthly |-> Absent]
Outputs(annual, monthly) == [present |-> TRUE, ac_annual |-> annual, ac_monthly |-> monthly]
NrelBody(errors, outputs) == [kind |-> "object", errors |-> errors, outputs |-> outputs]

NrelData ==
  { [kind |-> "null", errors |-> Absent, outputs |-> NoOutputs],
    NrelBody(Present(<<"bad lat", "bad lon">>), NoOutputs),
    NrelBody(Present(<<"bad key">>), Outputs(Fin(24001), Present(Monthly12))),
    NrelBody(Absent, NoOutputs),
    NrelBody(Present(<<>>), Outputs(Fin(24001), Present(Monthly12))),
    NrelBody(Absent, Outputs(Fin(24001), Present(Monthly12))),
    NrelBody(Absent, Outputs(Fin(0), Present(Monthly12))),
    NrelBody(Absent, Outputs(Fin(-200), Present(Monthly12))),
    NrelBody(Absent, Outputs(Undefined, Present(Monthly12))),
    NrelBody(Absent, Outputs(Fin(24001), Absent)),
    NrelBody(Absent, Outputs(Fin(24001), Present(<<>>))),
    NrelBody(Absent, Outputs(Fin(24001), Present(<<Fin(201), Fin(401)>>))) }

\* what the current-weather response.json() resolves to
WeatherBody(main, weather, clouds) ==
  [kind |-> "object", main |-> main, weather |-> weather, clouds |-> clouds]

WeatherResponses ==
  { [kind |-> "null", main |-> Absent, weather |-> Absent, clouds |-> Absent],
    WeatherBody(Present(<<[temp |-> Fin(170)]>>),
                Present(<<[description |-> "clear sky"]>>),
                Present(<<[all |-> Fin(0)]>>)),
    WeatherBody(Present(<<[temp |-> Fin(170)]>>), Present(<<>>),
                Present(<<[all |-> Fin(0)]>>)) }

\* daily samples of 2024-02-01 02:00, 2024-02-01 12:00, 2024-02-04 00:00 and
\* 2024-12-31 23:59:59 UTC; temp and uvi are the hundredths of the numerals
\* in the response body
Sample(dt, temp, uvi) ==
  [dt |-> Fin(dt), temp |-> [present |-> TRUE, day |-> Decimal(temp, 100)],
   uvi |-> Decimal(uvi, 100)]

Samples ==
  { Sample(1706752800, 1503, 50), Sample(1706788800, 1995, 275),
    Sample(1707004800, 2247, 610), Sample(1735689599, -25, 25) }

BadSample == [dt |-> Fin(1706788800), temp |-> [present |-> FALSE, day |-> DoubleNaN],
              uvi |-> Decimal(275, 100)]

RECURSIVE SeqsUpTo(_, _)
SeqsUpTo(S, n) ==
  IF n = 0 THEN { <<>> }
  ELSE LET shorter == SeqsUpTo(S, n - 1) IN
       shorter \cup { Append(q, x) : q \in shorter, x \in S }

\* a historical-weather body whose daily is the array d
DailyBody(d) == [kind |-> "object", daily |-> Present(d), isArray |-> TRUE]

\* what the historical-weather response.json() resolves to
HistoricalResponses ==
  { [kind |-> "null", daily |-> Absent, isArray |-> FALSE],
    [kind |-> "object", daily |-> Absent, isArray |-> FALSE],
    [kind |-> "object", daily |-> Present(<<>>), isArray |-> FALSE],
    DailyBody(<<BadSample>>),
    DailyBody(<<>>),
    DailyBody(<<Sample(1706752800, 1503, 50)>>),
    DailyBody(<<Sample(1706752800, 1503, 50), Sample(1735689599, -25, 25)>>) }

\* the bodies whose daily is a sequence of up to MaxSamples readable samples
DailyBodies == { DailyBody(d) : d \in SeqsUpTo(Samples, MaxSamples) }

\* ------------------------------------------------------------------- state
Runs == 1..MaxRuns

VARIABLES
  keysPresent,        \* both REACT_APP_* keys are in process.env
  tzOffset,           \* the browser's clock offset
  mounted,            \* the mount effect has run
  apiKeyAvailable, loading, error, estimate, monthlyData, weatherData,
  costEstimate, mapCoordinates, historicalWeather, incentives,
  pc,                 \* where each call of handleSubmit stands
  local,              \* the local constants of each call
  requests,           \* the fetches each call has issued
  outcome             \* how each call ended

vars == << keysPresent, tzOffset, mounted, apiKeyAvailable, loading, error, estimate,
           monthlyData, weatherData, costEstimate, mapCoordinates, historicalWeather,
           incentives, pc, local, requests, outcome >>

Null == [null |-> TRUE]
Some(x) == [null |-> FALSE, value |-> x]
NullNumber == [k |-> "null", v |-> 0]
UnsetQ == SpecialQ("undef")

NoLocals ==
  [address |-> <<>>, annualConsumption |-> <<>>, systemSizeKW |-> Undefined,
   nrelData |-> Null, annualProduction |-> Undefined, estimatedCost |-> Undefined,
   annualSavings |-> Undefined, paybackPeriod |-> UnsetQ, state |-> <<>>,
   appliedIncentives |-> <<>>, totalIncentives |-> Undefined,
   adjustedCost |-> Undefined, adjustedPaybackPeriod |-> UnsetQ,
   geocodeData |-> Null, weatherResponse |-> Null, historicalData |-> Null,
   thrown |-> Null]

Request(to, capacity) == [to |-> to, system_capacity |-> capacity]

Init ==
  /\ keysPresent \in BOOLEAN
  /\ tzOffset \in TimeZones
  /\ mounted = FALSE
  /\ apiKeyAvailable = TRUE
  /\ loading = FALSE
  /\ error = <<>>
  /\ estimate = NullNumber
  /\ monthlyData = <<>>
  /\ weatherData = Null
  /\ costEstimate = Null
  /\ mapCoordinates = Null
  /\ historicalWeather = Null
  /\ incentives = <<>>
  /\ pc = [r \in Runs |-> "idle"]
  /\ local = [r \in Runs |-> NoLocals]
  /\ requests = [r \in Runs |-> {}]
  /\ outcome = [r \in Runs |-> "none"]

\* the effect run once after the first render
MountEffect ==
  /\ ~mounted
  /\ mounted' = TRUE
  /\ IF ~keysPresent
     THEN /\ apiKeyAvailable' = FALSE
          /\ error' = <<"API key is not available. Please check your environment configuration.">>
     ELSE UNCHANGED << apiKeyAvailable, error >>
  /\ UNCHANGED << keysPresent, tzOffset, loading, estimate, monthlyData, weatherData,
                  costEstimate, mapCoordinates, historicalWeather, incentives,
                  pc, local, requests, outcome >>

\* err.message || 'Failed to estimate solar production. Please try again.'
ErrorText(message) ==
  IF message = <<>> THEN <<"Failed to estimate solar production. Please try again.">>
  ELSE message

\* a finished call's locals are gone once the next call starts
Retire(p, r) ==
  [q \in Runs |-> IF q = r THEN "geocode"
                  ELSE IF p[q] \in {"done", "rejected"} THEN "retired" ELSE p[q]]

\* CatchFinally without the finally block
CatchWithoutFinally(r, message) ==
  /\ error' = ErrorText(message)
  /\ loading' = loading
  /\ pc' = [pc EXCEPT ![r] = "done"]
  /\ outcome' = [outcome EXCEPT ![r] = "Failed"]

\* the catch and finally blocks of handleSubmit, entered from call r
CatchFinally(r, message) ==
  /\ error' = ErrorText(message)
  /\ loading' = FALSE
  /\ pc' = [pc EXCEPT ![r] = "done"]
  /\ outcome' = [outcome EXCEPT ![r] = "Failed"]

\* handleSubmit up to its first await: the key check, the resets, the geocoding
\* fetch.  addr and consumption are the address and annualConsumption the
\* handler's closure holds, that is, the texts of the two fields at the render
\* the submit comes from; every later read of them in the call (lines 178 and
\* 204) sees these values.  The call numbered r is the next unused one.
handleSubmit(r, addr, consumption) ==
  /\ mounted
  /\ pc[r] = "idle"
  /\ \A q \in Runs : q < r => pc[q] # "idle"
  /\ IF ~apiKeyAvailable
     THEN /\ error' = <<"Cannot proceed without API keys.">>
          /\ pc' = [pc EXCEPT ![r] = "rejected"]
          /\ outcome' = [outcome EXCEPT ![r] = "Rejected"]
          /\ UNCHANGED << loading, estimate, monthlyData, weatherData, costEstimate,
                          mapCoordinates, historicalWeather, incentives, local, requests >>
     ELSE /\ loading' = TRUE
          /\ error' = <<>>
          /\ estimate' = NullNumber
          /\ monthlyData' = <<>>
          /\ weatherData' = Null
          /\ costEstimate' = Null
          /\ mapCoordinates' = Null
          /\ historicalWeather' = Null
          /\ incentives' = <<>>
          /\ pc' = Retire(pc, r)
          /\ local' = [q \in Runs |->
                         IF q = r THEN [NoLocals EXCEPT !.address = addr,
                                                        !.annualConsumption = consumption]
                         ELSE IF pc[q] \in {"done", "rejected"} THEN NoLocals
                         ELSE local[q]]
          /\ requests' = [q \in Runs |->
                            IF q = r THEN {Request("geocode", Undefined)}
                            ELSE IF pc[q] \in {"done", "rejected"} THEN {}
                            ELSE requests[q]]
          /\ outcome' = [q \in Runs |->
                           IF pc[q] \in {"done", "rejected"} THEN "none" ELSE outcome[q]]
  /\ UNCHANGED << keysPresent, tzOffset, mounted, apiKeyAvailable >>

\* the geocoding fetch or its json() rejects
GeocodeThrows(r, message) ==
  /\ pc[r] = "geocode"
  /\ CatchFinally(r, message)
  /\ local' = [local EXCEPT ![r].thrown = Some(message)]
  /\ UNCHANGED << keysPresent, tzOffset, mounted, apiKeyAvailable, estimate, monthlyData,
                  weatherData, costEstimate, mapCoordinates, historicalWeather,
                  incentives, requests >>

\* the message of the error lines 168-172 throw on geocodeData, <<>> if none
GeocodeError(geocodeData) ==
  IF geocodeData.kind = "null" THEN TypeErrorMessage
  ELSE IF geocodeData.kind = "array" /\ Len(geocodeData.results) = 0
  THEN <<"Unable to find coordinates for the given address">>
  ELSE IF geocodeData.kind = "object" THEN TypeErrorMessage
  ELSE <<>>

\* handleSubmit from the geocoder's answer to the solar-yield fetch
GeocodeResponse(r, geocodeData) ==
  /\ pc[r] = "geocode"
  /\ IF GeocodeError(geocodeData) # <<>>
     THEN /\ CatchFinally(r, GeocodeError(geocodeData))
          /\ local' = [local EXCEPT ![r] = [@ EXCEPT !.geocodeData = Some(geocodeData),
                                                     !.thrown = Some(GeocodeError(geocodeData))]]
          /\ UNCHANGED << mapCoordinates, requests >>
     ELSE LET systemSizeKW == SystemSizeKW(local[r].annualConsumption) IN
          /\ mapCoordinates' = Some(geocodeData.results[1])
          /\ local' = [local EXCEPT ![r] = [@ EXCEPT !.geocodeData = Some(geocodeData),
                                                     !.systemSizeKW = systemSizeKW]]
          /\ requests' = [requests EXCEPT ![r] = @ \cup {Request("nrel", systemSizeKW)}]
          /\ pc' = [pc EXCEPT ![r] = "nrel"]
          /\ UNCHANGED << loading, error, outcome >>
  /\ UNCHANGED << keysPresent, tzOffset, mounted, apiKeyAvailable, estimate, monthlyData,
                  weatherData, costEstimate, historicalWeather, incentives >>

\* the solar-yield fetch or its json() rejects
NrelThrows(r, message) ==
  /\ pc[r] = "nrel"
  /\ CatchFinally(r, message)
  /\ local' = [local EXCEPT ![r].thrown = Some(message)]
  /\ UNCHANGED << keysPresent, tzOffset, mounted, apiKeyAvailable, estimate, monthlyData,
                  weatherData, costEstimate, mapCoordinates, historicalWeather,
                  incentives, requests >>

\* NrelError without the test of the error list
NrelErrorIgnoringErrors(nrelData) ==
  IF nrelData.kind = "null" THEN TypeErrorMessage
  ELSE IF ~nrelData.outputs.present THEN TypeErrorMessage
  ELSE <<>>

\* the message of the error lines 183-187 throw on nrelData, <<>> if none
NrelError(nrelData) ==
  IF nrelData.kind = "null" THEN TypeErrorMessage
  ELSE IF nrelData.errors.present /\ Len(nrelData.errors.list) > 0
  THEN <<"Error fetching solar data: ">> \o Join(nrelData.errors.list, ", ")
  ELSE IF ~nrelData.outputs.present THEN TypeErrorMessage
  ELSE <<>>

\* the local constants of lines 187-210
CostLocals(l, nrelData) ==
  LET annualProduction == nrelData.outputs.ac_annual
      estimatedCost == EstimatedCost(l.systemSizeKW)
      annualSavings == AnnualSavings(annualProduction)
      paybackPeriod == PaybackPeriod(estimatedCost, annualSavings)
      state == StateOfAddress(l.address)
      calc == calculateIncentives(estimatedCost, state)
      adjustedCost == AdjustedCost(estimatedCost, calc.totalIncentives)
      adjustedPaybackPeriod == AdjustedPaybackPeriod(adjustedCost, annualSavings)
  IN [l EXCEPT !.nrelData = Some(nrelData),
               !.annualProduction = annualProduction,
               !.estimatedCost = estimatedCost,
               !.annualSavings = annualSavings,
               !.paybackPeriod = paybackPeriod,
               !.state = state,
               !.appliedIncentives = calc.appliedIncentives,
               !.totalIncentives = calc.totalIncentives,
               !.adjustedCost = adjustedCost,
               !.adjustedPaybackPeriod = adjustedPaybackPeriod]

\* handleSubmit from the solar-yield answer to the current-weather fetch
NrelResponse(r, nrelData) ==
  /\ pc[r] = "nrel"
  /\ IF NrelError(nrelData) # <<>>
     THEN /\ CatchFinally(r, NrelError(nrelData))
          /\ local' = [local EXCEPT ![r] = [@ EXCEPT !.nrelData = Some(nrelData),
                                                     !.thrown = Some(NrelError(nrelData))]]
          /\ UNCHANGED << estimate, incentives, monthlyData, costEstimate, requests >>
     ELSE LET l == CostLocals(local[r], nrelData) IN
          /\ estimate' = MathRound(l.annualProduction, EnergyUnitsPerKWh)
          /\ incentives' = l.appliedIncentives
          /\ IF ~nrelData.outputs.ac_monthly.present
             THEN /\ CatchFinally(r, TypeErrorMessage)
                  /\ local' = [local EXCEPT ![r] = [l EXCEPT !.thrown = Some(TypeErrorMessage)]]
                  /\ UNCHANGED << monthlyData, costEstimate, requests >>
             ELSE /\ monthlyData' = ChartData(nrelData.outputs.ac_monthly.list)
                  /\ costEstimate' =
                       Some(CostEstimateOf(l.systemSizeKW, l.annualProduction, l.estimatedCost,
                                           l.annualSavings, l.paybackPeriod, l.totalIncentives,
                                           l.adjustedCost, l.adjustedPaybackPeriod))
                  /\ local' = [local EXCEPT ![r] = l]
                  /\ requests' = [requests EXCEPT ![r] = @ \cup {Request("weather", Undefined)}]
                  /\ pc' = [pc EXCEPT ![r] = "weather"]
                  /\ UNCHANGED << loading, error, outcome >>
  /\ UNCHANGED << keysPresent, tzOffset, mounted, apiKeyAvailable, weatherData,
                  mapCoordinates, historicalWeather >>

\* the test of line 238; a null body makes it throw inside the inner try
WeatherWellFormed(weatherData0) ==
  /\ weatherData0.kind = "object"
  /\ weatherData0.main.present
  /\ weatherData0.weather.present
  /\ Len(weatherData0.weather.list) > 0
  /\ weatherData0.clouds.present

\* WeatherOf without the shape test on a non-null body
WeatherOfUnchecked(weatherData0) ==
  IF weatherData0.kind = "object"
  THEN Some([temperature |-> Undefined, description |-> "undefined", cloudCover |-> Undefined])
  ELSE Null

WeatherOf(weatherData0) ==
  IF WeatherWellFormed(weatherData0)
  THEN Some([temperature |-> weatherData0.main.list[1].temp,
             description |-> weatherData0.weather.list[1].description,
             cloudCover |-> weatherData0.clouds.list[1].all])
  ELSE Null

\* the first inner try block, then the historical-weather fetch
WeatherSettles(r, res) ==
  /\ pc[r] = "weather"
  /\ weatherData' = IF res.kind = "throw" THEN Null ELSE WeatherOf(res)
  /\ requests' = [requests EXCEPT ![r] = @ \cup {Request("historical", Undefined)}]
  /\ pc' = [pc EXCEPT ![r] = "historical"]
  /\ local' = [local EXCEPT ![r].weatherResponse = Some(res)]
  /\ UNCHANGED << keysPresent, tzOffset, mounted, apiKeyAvailable, loading, error, estimate,
                  monthlyData, costEstimate, mapCoordinates, historicalWeather, incentives,
                  outcome >>

\* lines 258-264; a null body, a daily that is no array or an unreadable sample
\* throws inside the inner try
HistoricalOf(res, offset) ==
  IF res.kind # "object" \/ ~res.daily.present \/ ~res.isArray THEN Null
  ELSE LET processedHistoricalData == processHistoricalWeatherData(res.daily.list, offset) IN
       IF processedHistoricalData.threw THEN Null
       ELSE Some(processedHistoricalData.value)

\* the second inner try block, then the finally block
HistoricalSettles(r, res) ==
  /\ pc[r] = "historical"
  /\ historicalWeather' = IF res.kind = "throw" THEN Null ELSE HistoricalOf(res, tzOffset)
  /\ local' = [local EXCEPT ![r].historicalData = Some(res)]
  /\ loading' = FALSE
  /\ pc' = [pc EXCEPT ![r] = "done"]
  /\ outcome' = [outcome EXCEPT ![r] = "Complete"]
  /\ UNCHANGED << keysPresent, tzOffset, mounted, apiKeyAvailable, error, estimate,
                  monthlyData, weatherData, costEstimate, mapCoordinates, incentives,
                  requests >>

\* the form's submit button is disabled while loading, so calls made through
\* it follow one another
SubmitEnabled == ~loading

Next ==
  \/ MountEffect
  \/ \E r \in Runs, addr \in Addresses, consumption \in Consumptions :
       SubmitEnabled /\ handleSubmit(r, addr, consumption)
  \/ \E r \in Runs, message \in ThrownMessages : GeocodeThrows(r, message)
  \/ \E r \in Runs, geocodeData \in GeocodeData : GeocodeResponse(r, geocodeData)
  \/ \E r \in Runs, message \in ThrownMessages : NrelThrows(r, message)
  \/ \E r \in Runs, nrelData \in NrelData : NrelResponse(r, nrelData)
  \/ \E r \in Runs, res \in {BranchRejection} \cup WeatherResponses :
       WeatherSettles(r, res)
  \/ \E r \in Runs, res \in {BranchRejection} \cup HistoricalResponses :
       HistoricalSettles(r, res)

Spec == Init /\ [][Next]_vars

\* The answers of a call in which nothing goes wrong before the weather.
PlainConsumptions == { <<"4", "3", "8", "0">> }
PlainGeocodeData == { [kind |-> "array", results |-> <<[lat |-> "34.05", lon |-> "-118.24"]>>] }
PlainNrelData == { NrelBody(Absent, Outputs(Fin(24001), Present(Monthly12))) }

\* some fetch call r awaits resolves or rejects and the call runs on
Settles(r) ==
  \/ \E message \in ThrownMessages : GeocodeThrows(r, message)
  \/ \E geocodeData \in GeocodeData : GeocodeResponse(r, geocodeData)
  \/ \E message \in ThrownMessages : NrelThrows(r, message)
  \/ \E nrelData \in NrelData : NrelResponse(r, nrelData)
  \/ \E res \in {BranchRejection} \cup WeatherResponses : WeatherSettles(r, res)
  \/ \E res \in {BranchRejection} \cup HistoricalResponses : HistoricalSettles(r, res)

\* Calls whose every awaited fetch eventually resolves or rejects, with any
\* of the answers; the fields hold one text each.
NextSettling ==
  \/ MountEffect
  \/ \E r \in Runs, addr \in { <<"N", "Y">> }, consumption \in PlainConsumptions :
       SubmitEnabled /\ handleSubmit(r, addr, consumption)
  \/ \E r \in Runs : Settles(r)

SpecSettling == Init /\ [][NextSettling]_vars /\ \A r \in Runs : WF_vars(Settles(r))

\* The aggregation on its own: calls that get the same well-formed answers
\* up to the historical weather, whose daily array ranges over the sequences
\* of up to MaxSamples samples.
NextAggregate ==
  \/ MountEffect
  \/ \E r \in Runs, addr \in { <<"N", "Y">> }, consumption \in PlainConsumptions :
       SubmitEnabled /\ handleSubmit(r, addr, consumption)
  \/ \E r \in Runs, geocodeData \in PlainGeocodeData : GeocodeResponse(r, geocodeData)
  \/ \E r \in Runs, nrelData \in PlainNrelData : NrelResponse(r, nrelData)
  \/ \E r \in Runs, res \in {BranchRejection} : WeatherSettles(r, res)
  \/ \E r \in Runs, res \in DailyBodies : HistoricalSettles(r, res)

SpecAggregate == Init /\ [][NextAggregate]_vars

\* Overlapping calls.  The submit button exists only on the last step of the
\* form (lines 444-454); on the first step the form holds one text field and
\* no submit button, so Enter in the address field submits it whatever
\* loading is, also while an earlier call awaits a response.  Each call
\* draws its answers from a few well-formed and failing ones.
OverlapAddresses == { <<"a", ",", " ", "C", "A">>, <<"N", "Y">> }
OverlapGeocodeData == PlainGeocodeData \cup { [kind |-> "array", results |-> <<>>] }
OverlapHistoricalResponses ==
  { BranchRejection, DailyBody(<<Sample(1706752800, 1503, 50)>>) }

NextOverlap ==
  \/ MountEffect
  \/ \E r \in Runs, addr \in OverlapAddresses, consumption \in PlainConsumptions :
       handleSubmit(r, addr, consumption)
  \/ \E r \in Runs, geocodeData \in OverlapGeocodeData : GeocodeResponse(r, geocodeData)
  \/ \E r \in Runs, nrelData \in PlainNrelData : NrelResponse(r, nrelData)
  \/ \E r \in Runs, res \in {BranchRejection} \cup WeatherResponses :
       WeatherSettles(r, res)
  \/ \E r \in Runs, res \in OverlapHistoricalResponses : HistoricalSettles(r, res)

SpecOverlap == Init /\ [][NextOverlap]_vars

\* ------------------------------------------------------------- properties
Started(r) == pc[r] \in {"geocode", "nrel", "weather", "historical", "done"}
Asked(r, to) == \E q \in requests[r] : q.to = to
NotFoundMessage == <<"Unable to find coordinates for the given address">>

\* the geocoder answered call r with an empty result list
GeocodeFoundNothing(r) ==
  /\ ~local[r].geocodeData.null
  /\ local[r].geocodeData.value.kind = "array"
  /\ local[r].geocodeData.value.results = <<>>

\* the solar-yield answer to call r carries a non-empty error list
YieldReportedErrors(r) ==
  /\ ~local[r].nrelData.null
  /\ local[r].nrelData.value.kind = "object"
  /\ local[r].nrelData.value.errors.present
  /\ local[r].nrelData.value.errors.list # <<>>

\* the cost figures of lines 187-210 were computed in call r
CostComputed(r) == local[r].adjustedPaybackPeriod # UnsetQ

\* C1: a call whose geocoding found nothing, or whose solar-yield answer
\* carries errors, is finished and Failed with the originating message; it
\* never computed a cost estimate and never asked for current or historical
\* weather (nor, after a geocoding failure, for the solar yield).
C1_MandatoryFailureAborts ==
  \A r \in Runs :
    /\ GeocodeFoundNothing(r) =>
         /\ pc[r] = "done" /\ outcome[r] = "Failed"
         /\ error = NotFoundMessage
         /\ requests[r] = {Request("geocode", Undefined)}
         /\ ~CostComputed(r) /\ costEstimate = Null
    /\ YieldReportedErrors(r) =>
         /\ pc[r] = "done" /\ outcome[r] = "Failed"
         /\ error = <<"Error fetching solar data: ">>
                      \o Join(local[r].nrelData.value.errors.list, ", ")
         /\ ~Asked(r, "weather") /\ ~Asked(r, "historical")
         /\ ~CostComputed(r) /\ costEstimate = Null

C1_Witness ==
  \E r \in Runs :
    /\ YieldReportedErrors(r)
    /\ local[r].nrelData.value.outputs.present
    /\ outcome[r] = "Failed"
    /\ Asked(r, "nrel")

\* C2 (as claimed): a call that ended Failed leaves no part of an estimate.
C2_FailedLeavesNoEstimate ==
  \A r \in Runs :
    outcome[r] = "Failed" =>
      /\ estimate = NullNumber
      /\ monthlyData = <<>>
      /\ costEstimate = Null
      /\ incentives = <<>>

\* the current-weather (historical) answer to call r was a failure: a
\* rejection or a body of an unexpected shape
WeatherFailed(r) ==
  /\ ~local[r].weatherResponse.null
  /\ LET res == local[r].weatherResponse.value IN
       \/ res.kind # "object"
       \/ ~res.main.present \/ ~res.clouds.present
       \/ ~res.weather.present \/ res.weather.list = <<>>

HistoricalFailed(r) ==
  /\ ~local[r].historicalData.null
  /\ LET res == local[r].historicalData.value IN
       \/ res.kind # "object"
       \/ ~res.daily.present \/ ~res.isArray
       \/ \E i \in 1..Len(res.daily.list) : ~res.daily.list[i].temp.present

\* C3: once costing has succeeded (the weather fetch was issued) the call
\* never fails: a failed weather or historical answer leaves that result
\* null, a good answer of the other branch is still delivered, error stays
\* empty, and the finished call is Complete with estimate and cost kept.
C3_OptionalFailureAbsorbed ==
  \A r \in Runs :
    Asked(r, "weather") =>
      /\ outcome[r] # "Failed" /\ error = <<>>
      /\ estimate # NullNumber /\ costEstimate # Null
      /\ WeatherFailed(r) => weatherData = Null
      /\ (~local[r].weatherResponse.null /\ ~WeatherFailed(r)) => weatherData # Null
      /\ pc[r] \in {"historical", "done"} => Asked(r, "historical")
      /\ pc[r] = "done" =>
           /\ outcome[r] = "Complete" /\ ~loading
           /\ HistoricalFailed(r) => historicalWeather = Null
           /\ ~HistoricalFailed(r) => historicalWeather # Null

C3_Witness ==
  \E r \in Runs :
    /\ pc[r] = "done" /\ outcome[r] = "Complete"
    /\ WeatherFailed(r) /\ weatherData = Null
    /\ ~HistoricalFailed(r) /\ historicalWeather # Null

\* C4 (as claimed): whenever the cost figures are computed from a numeric
\* annual savings, each payback period is Infinity exactly when the savings
\* are not positive.
C4_PaybackUnboundedIffNoSavings ==
  \A r \in Runs :
    (CostComputed(r) /\ IsFin(local[r].annualSavings)) =>
      /\ (local[r].paybackPeriod.k = "inf") <=> (local[r].annualSavings.v <= 0)
      /\ (local[r].adjustedPaybackPeriod.k = "inf") <=> (local[r].annualSavings.v <= 0)

\* C5 (as claimed): a call whose consumption text parses to zero, a negative
\* number or NaN never asks for the solar yield, and ends Failed.
C5_InvalidConsumptionFails ==
  \A r \in Runs :
    (Started(r) /\ ~Positive(ParseFloat(local[r].annualConsumption))) =>
      /\ ~Asked(r, "nrel")
      /\ pc[r] = "done" => outcome[r] = "Failed"

\* the solar-yield answer to call r has no error list to report and lacks
\* the annual figure, the monthly list, or has a monthly list not 12 long
YieldMalformed(r) ==
  /\ ~local[r].nrelData.null
  /\ ~YieldReportedErrors(r)
  /\ LET d == local[r].nrelData.value IN
       \/ d.kind # "object"
       \/ ~d.outputs.present
       \/ d.outputs.ac_annual.k = "undef"
       \/ ~d.outputs.ac_monthly.present
       \/ Len(d.outputs.ac_monthly.list) # 12

\* C6 (as claimed): a malformed solar-yield answer always fails the call,
\* and no call ends Complete with a monthly series not 12 long.
C6_MalformedYieldFails ==
  \A r \in Runs :
    /\ YieldMalformed(r) => (pc[r] = "done" /\ outcome[r] = "Failed")
    /\ outcome[r] = "Complete" => Len(monthlyData) = 12

\* the catalogue records of one region, by position
MatchingPositions(region) ==
  { j \in 1..Len(incentivesDatabase) : incentivesDatabase[j].state = region }

CatalogueRecord(applied) ==
  [state |-> applied.state, type |-> applied.type, amount |-> applied.amount,
   description |-> applied.description]

\* C7: the records applied in a call are exactly the catalogue records whose
\* state is, character for character, the call's region, in catalogue order;
\* a region that matches nothing gives no record, a total of 0 and no error.
C7_ExactMatchInCatalogueOrder ==
  \A r \in Runs :
    CostComputed(r) =>
      LET applied == local[r].appliedIncentives
          region == local[r].state
      IN /\ Len(applied) = Cardinality(MatchingPositions(region))
         /\ \E f \in [1..Len(applied) -> 1..Len(incentivesDatabase)] :
              /\ \A i \in 1..Len(applied) :
                   /\ f[i] \in MatchingPositions(region)
                   /\ CatalogueRecord(applied[i]) = incentivesDatabase[f[i]]
              /\ \A i, j \in 1..Len(applied) : i < j => f[i] < f[j]
         /\ MatchingPositions(region) = {} =>
              /\ applied = <<>>
              /\ local[r].totalIncentives = Fin(0)
              /\ (local[r].nrelData.value.outputs.ac_monthly.present
                    => outcome[r] # "Failed")

C7_Witness ==
  \E r \in Runs :
    /\ CostComputed(r)
    /\ local[r].state = <<"c", "a">>
    /\ local[r].appliedIncentives = <<>>
    /\ outcome[r] = "Complete"

\* the sum of the applied amounts (all of them finite)
RECURSIVE SumOfAmounts(_)
SumOfAmounts(applied) ==
  IF applied = <<>> THEN 0
  ELSE Head(applied).appliedAmount.v + SumOfAmounts(Tail(applied))

\* C8: the applied sequence lists the matched records in catalogue order,
\* a rebate's applied amount is its flat amount whatever the cost, a tax
\* credit's is its fraction of the installation cost, and the total is the
\* sum of the applied amounts.
C8_OrderPreservingAdditive ==
  \A r \in Runs :
    CostComputed(r) =>
      LET applied == local[r].appliedIncentives
          cost == local[r].estimatedCost
          matched == SelectSeq(incentivesDatabase,
                               LAMBDA rec : rec.state = local[r].state)
      IN /\ [i \in 1..Len(applied) |-> CatalogueRecord(applied[i])] = matched
         /\ incentives = applied
         /\ \A i \in 1..Len(applied) :
              /\ applied[i].type = "rebate" =>
                   applied[i].appliedAmount = Fin(applied[i].amount * UnitsPerDollar)
              /\ applied[i].type = "taxCredit" =>
                   IF IsFin(cost)
                   THEN /\ IsFin(applied[i].appliedAmount)
                        /\ 100 * (applied[i].appliedAmount.v \div applied[i].amount)
                             = cost.v
                        /\ applied[i].appliedAmount.v % applied[i].amount = 0
                   ELSE applied[i].appliedAmount = cost
         /\ IF \A i \in 1..Len(applied) : IsFin(applied[i].appliedAmount)
            THEN local[r].totalIncentives = Fin(SumOfAmounts(applied))
            ELSE local[r].totalIncentives = NaN

C8_Witness ==
  \E r \in Runs :
    /\ CostComputed(r)
    /\ Len(local[r].appliedIncentives) = 2
    /\ local[r].state = <<"N", "Y">>
    /\ IsFin(local[r].estimatedCost) /\ local[r].estimatedCost.v > 0
    /\ local[r].totalIncentives.v
         > local[r].appliedIncentives[1].appliedAmount.v

\* C9: the adjusted cost is the installation cost minus the total of the
\* incentives, negative when the incentives exceed the cost, and equal to
\* the installation cost when no incentive applies; the cost estimate
\* holds it rounded to the dollar, unfloored.
C9_AdjustedCostUnfloored ==
  \A r \in Runs :
    CostComputed(r) =>
      LET cost == local[r].estimatedCost
          total == local[r].totalIncentives
          adjusted == local[r].adjustedCost
      IN /\ (IsFin(cost) /\ IsFin(total)) => adjusted = Fin(cost.v - total.v)
         /\ local[r].appliedIncentives = <<>> => adjusted = cost
         /\ (IsFin(adjusted) /\ ~costEstimate.null) =>
              LET shown == costEstimate.value.adjustedInstallationCost.v IN
                /\ 2 * shown * UnitsPerDollar - UnitsPerDollar <= 2 * adjusted.v
                /\ 2 * adjusted.v < 2 * shown * UnitsPerDollar + UnitsPerDollar

C9_Witness ==
  \E r \in Runs :
    /\ CostComputed(r)
    /\ IsFin(local[r].adjustedCost) /\ local[r].adjustedCost.v < 0
    /\ local[r].estimatedCost.v > 0
    /\ ~costEstimate.null
    /\ costEstimate.value.adjustedInstallationCost.v < 0

\* the samples of one calendar month (1 = January) on the browser's clock
RECURSIVE InMonth(_, _)
InMonth(daily, m) ==
  IF daily = <<>> THEN <<>>
  ELSE (IF GetMonth(Head(daily).dt.v, tzOffset) + 1 = m THEN <<Head(daily)>> ELSE <<>>)
       \o InMonth(Tail(daily), m)

Temperatures(daily) == [i \in DOMAIN daily |-> daily[i].temp.day]
UVIndexes(daily) == [i \in DOMAIN daily |-> daily[i].uvi]

\* the real number values[1] + ... + values[n]
RECURSIVE ExactTotal(_)
ExactTotal(values) ==
  IF values = <<>> THEN DoubleZero
  ELSE ExactSum(ExactTotal(SubSeq(values, 1, Len(values) - 1)), values[Len(values)])

\* the double ((0 + values[1]) + values[2]) + ... with a rounding at each +
RECURSIVE SumInOrder(_)
SumInOrder(values) ==
  IF values = <<>> THEN DoubleZero
  ELSE DoubleAdd(SumInOrder(SubSeq(values, 1, Len(values) - 1)), values[Len(values)])

\* call r finished with a historical answer made of readable samples
Aggregated(r) ==
  /\ pc[r] = "done" /\ outcome[r] = "Complete"
  /\ ~local[r].historicalData.null
  /\ ~HistoricalFailed(r)

SignedTenths(entry) == IF entry.text.neg THEN -entry.text.n ELSE entry.text.n

TimesPowerOfTwo(x, k) == IF x.m = <<>> THEN x ELSE [x EXCEPT !.e = @ + k]

\* entry is exactly the mean of values: 10 * total = tenths * count
ExactMean(entry, values) ==
  LET total == ExactTotal(values) IN
  /\ entry.text.k = "fin"
  /\ ExactSum(TimesPowerOfTwo(total, 3), TimesPowerOfTwo(total, 1))
       = DoubleFromInt(SignedTenths(entry) * Len(values))

\* entry is the text, to one decimal, of the sum of values in their order
\* divided by their number
FloatingMean(entry, values) ==
  /\ entry.type = "string"
  /\ entry.text = DoubleToFixed(DoubleDivide(SumInOrder(values), Len(values)))

IsZero(entry) == entry.type = "number" /\ entry.text.k = "fin" /\ entry.text.n = 0

\* C10 (as claimed): the summary has 12 entries Jan to Dec; a month with
\* samples holds exactly the mean of their temperatures and of their UV
\* indexes, a month without holds 0 for both.
C10_MonthlyMeansExact ==
  \A r \in Runs :
    Aggregated(r) =>
      LET daily == local[r].historicalData.value.daily.list
          summary == historicalWeather.value
      IN /\ Len(summary) = 12
         /\ \A m \in 1..12 :
              LET mine == InMonth(daily, m) IN
              /\ summary[m].month = monthNames[m]
              /\ IF mine = <<>>
                 THEN IsZero(summary[m].temperature) /\ IsZero(summary[m].solarRadiation)
                 ELSE /\ ExactMean(summary[m].temperature, Temperatures(mine))
                      /\ ExactMean(summary[m].solarRadiation, UVIndexes(mine))

\* C10 (amended): the summary has 12 entries Jan to Dec; a month with
\* samples holds, for the temperature and for the UV index, the text to one
\* decimal of the floating-point sum of its samples' values, added in input
\* order, divided by their number; a month without holds the number 0 for
\* both.
C10_MonthlyMeansRounded ==
  \A r \in Runs :
    Aggregated(r) =>
      LET daily == local[r].historicalData.value.daily.list
          summary == historicalWeather.value
      IN /\ Len(summary) = 12
         /\ \A m \in 1..12 :
              LET mine == InMonth(daily, m) IN
              /\ summary[m].month = monthNames[m]
              /\ IF mine = <<>>
                 THEN IsZero(summary[m].temperature) /\ IsZero(summary[m].solarRadiation)
                 ELSE /\ FloatingMean(summary[m].temperature, Temperatures(mine))
                      /\ FloatingMean(summary[m].solarRadiation, UVIndexes(mine))

\* three samples in one month whose mean of 19.15 degrees is stored as 19.1
C10_Witness ==
  \E r \in Runs :
    /\ Aggregated(r)
    /\ \E m \in 1..12 :
         /\ Len(InMonth(local[r].historicalData.value.daily.list, m)) = 3
         /\ historicalWeather.value[m].temperature.text.n = 191
         /\ historicalWeather.value[m].solarRadiation.text.n = 31
    /\ \E m \in 1..12 : IsZero(historicalWeather.value[m].temperature)

\* the sequences that hold the samples of daily in another order
Reorderings(daily) ==
  { [i \in DOMAIN daily |-> daily[f[i]]] : f \in Permutations(DOMAIN daily) }

\* C11: the monthly summary of a sequence of samples is the summary of every
\* reordering of the sequence.
C11_OrderIrrelevant ==
  \A r \in Runs :
    Aggregated(r) =>
      \A shuffled \in Reorderings(local[r].historicalData.value.daily.list) :
        processHistoricalWeatherData(shuffled, tzOffset).value = historicalWeather.value

\* what the page shows of the estimate
Shown ==
  [loading |-> loading, error |-> error, estimate |-> estimate,
   monthlyData |-> monthlyData, weatherData |-> weatherData,
   costEstimate |-> costEstimate, mapCoordinates |-> mapCoordinates,
   historicalWeather |-> historicalWeather, incentives |-> incentives]

\* what a finished call with the locals l shows when no other call writes
ResultOf(l) ==
  LET located == ~l.geocodeData.null /\ GeocodeError(l.geocodeData.value) = <<>>
      yielded == ~l.nrelData.null /\ NrelError(l.nrelData.value) = <<>>
      charted == yielded /\ l.nrelData.value.outputs.ac_monthly.present
      answered(res) == ~res.null /\ res.value.kind # "throw"
  IN [loading |-> FALSE,
      error |-> IF l.thrown.null THEN <<>> ELSE ErrorText(l.thrown.value),
      estimate |-> IF yielded THEN MathRound(l.annualProduction, EnergyUnitsPerKWh)
                   ELSE NullNumber,
      monthlyData |-> IF charted THEN ChartData(l.nrelData.value.outputs.ac_monthly.list)
                      ELSE <<>>,
      weatherData |-> IF answered(l.weatherResponse) THEN WeatherOf(l.weatherResponse.value)
                      ELSE Null,
      costEstimate |->
        IF charted
        THEN Some(CostEstimateOf(l.systemSizeKW, l.annualProduction, l.estimatedCost,
                                 l.annualSavings, l.paybackPeriod, l.totalIncentives,
                                 l.adjustedCost, l.adjustedPaybackPeriod))
        ELSE Null,
      mapCoordinates |-> IF located THEN Some(l.geocodeData.value.results[1]) ELSE Null,
      historicalWeather |-> IF answered(l.historicalData)
                            THEN HistoricalOf(l.historicalData.value, tzOffset)
                            ELSE Null,
      incentives |-> IF yielded THEN l.appliedIncentives ELSE <<>>]

InFlight(r) == pc[r] \in {"geocode", "nrel", "weather", "historical"}

\* C12: once no call is in flight, what the page shows (production, monthly
\* series, cost estimate, incentives, coordinates, weather, historical
\* summary, error, loading) is the result of one finished call, computed from
\* that call's own inputs and responses.
C12_RunsIsolated ==
  ((\A r \in Runs : ~InFlight(r)) /\ (\E r \in Runs : pc[r] = "done"))
    => \E r \in Runs : pc[r] = "done" /\ Shown = ResultOf(local[r])

\* call r got a solar-yield answer without errors whose monthly sequence has
\* 12 elements, and went on past it
Charted(r) ==
  /\ pc[r] \in {"weather", "historical"} \/ (pc[r] = "done" /\ outcome[r] = "Complete")
  /\ Len(local[r].nrelData.value.outputs.ac_monthly.list) = 12

\* C13: after a well-formed solar-yield answer with 12 monthly values the
\* monthly series holds the same 12 values in the same order, element i
\* under the name of month i, and the annual figure is the answer's annual
\* value.
C13_SeriesUnchanged ==
  \A r \in Runs :
    Charted(r) =>
      LET outputs == local[r].nrelData.value.outputs IN
      /\ Len(monthlyData) = 12
      /\ \A i \in 1..12 :
           /\ monthlyData[i].name = monthNames[i]
           /\ monthlyData[i].production.k = outputs.ac_monthly.list[i].k
           /\ monthlyData[i].production.v * EnergyUnitsPerKWh = outputs.ac_monthly.list[i].v
      /\ estimate.k = outputs.ac_annual.k
      /\ estimate.v * EnergyUnitsPerKWh = outputs.ac_annual.v

\* call r passes the key check and issues its first request
FirstRequest(r) == requests[r] = {} /\ requests'[r] # {}

\* call r is turned away by the key check
Rejection(r) == pc[r] = "idle" /\ pc'[r] = "rejected"

\* C14: a call that passes the key check has set loading when it issues its
\* first request and, every awaited fetch settling, ends (Complete or Failed)
\* with loading false; a call turned away by the key check issues no request,
\* sets error and leaves loading and the result fields as they are.
C14_LoadingLifecycle ==
  /\ [][\A r \in Runs : FirstRequest(r) => loading']_vars
  /\ \A r \in Runs : InFlight(r) ~> (pc[r] = "done" /\ ~loading)
  /\ [][\A r \in Runs :
          Rejection(r) =>
            /\ requests'[r] = {}
            /\ error' = <<"Cannot proceed without API keys.">>
            /\ UNCHANGED << loading, estimate, monthlyData, weatherData, costEstimate,
                            mapCoordinates, historicalWeather, incentives >>]_vars

\* a call that lost both optional branches has ended Complete, loading false
C14_Witness ==
  \E r \in Runs :
    /\ pc[r] = "done" /\ outcome[r] = "Complete"
    /\ WeatherFailed(r) /\ HistoricalFailed(r)
    /\ Asked(r, "geocode")
    /\ ~loading

====
